---- MODULE Spec2Model ----
(***************************************************************************)
(* Model of the CSP crossword solver of src/__main__.py: parse_grid,       *)
(* build_domains, is_consistent, apply_word, undo, select_unassigned_slot, *)
(* backtrack and solve_crossword.                                          *)
(*                                                                         *)
(* Characters are one-character strings, a Python str is a sequence of     *)
(* characters, a grid is a sequence of rows.  Coordinates (r, c) and slot  *)
(* ids are 0-based as in the source; TLA+ sequences are 1-based, so the    *)
(* cell (r, c) of a grid g is g[r + 1][c + 1].                             *)
(***************************************************************************)
EXTENDS Integers, Sequences, FiniteSets, TLC

\* ---------------------------------------------------------------- bounds
\* The bounding box of a raw grid (rows times longest row) has at most
\* MaxCells cells.
MaxCells == 4
\* A dictionary has at most MaxDict entries.
MaxDict == 2
\* The files read again between two calls hold at most so many grid cells
\* and so many words.
MaxFileCells == 2
MaxFileDict == 1

\* ---------------------------------------------------------------- inputs
\* The grid alphabet: wall, empty cell, a fixed letter.
GridChars == {"#", ".", "A"}

\* The raw dictionary entries the word list is drawn from: mixed case,
\* surrounding blanks, a blank entry, lengths 2 and 3.
Lexicon ==
    { <<" ", "a", "b">>, <<"B", "A">>, <<"A", "A">>, <<"A", "B", "A">>, <<" ">> }

RECURSIVE StringsOfLen(_, _)
StringsOfLen(S, n) ==
    IF n = 0 THEN {<<>>}
    ELSE {Append(s, ch) : s \in StringsOfLen(S, n - 1), ch \in S}

RowsUpTo(n) == UNION {StringsOfLen(GridChars, k) : k \in 0..n}

\* Every raw grid within the bound: the empty one, ragged and rectangular
\* ones (h rows, each of at most MaxCells \div h characters).
RawGrids ==
    {<<>>} \cup UNION {[1..h -> RowsUpTo(MaxCells \div h)] : h \in 1..MaxCells}

Dictionaries == UNION {[1..n -> Lexicon] : n \in 0..MaxDict}

\* What read_grid_from_file can return within the bound: no row is empty.
FileRows(n) == UNION {StringsOfLen(GridChars, k) : k \in 1..n}
FileGrids ==
    {<<>>} \cup UNION {[1..h -> FileRows(MaxFileCells \div h)] : h \in 1..MaxFileCells}

\* ------------------------------------------------------------- constants
\* The value None of best_slot / best_count (ids and counts are >= 0).
None == -1

Min(a, b) == IF a < b THEN a ELSE b

\* ------------------------------------------------------------ parse_grid
Height(g) == Len(g)
Width(g) == Len(g[1])
Cell(g, r, c) == g[r + 1][c + 1]

\* Lines 22-29: the ValueError raised by parse_grid, "" when none.
ParseError(raw) ==
    IF raw = <<>> THEN "empty"
    ELSE IF \E i \in 1..Len(raw) : Len(raw[i]) # Len(raw[1]) THEN "ragged"
    ELSE ""

\* Lines 39/56: the cell is not a wall.
IsOpen(g, r, c) == Cell(g, r, c) # "#"

\* Line 41: a horizontal slot starts at the left edge or right of a wall.
HStart(g, r, c) == c = 0 \/ Cell(g, r, c - 1) = "#"

\* Line 58: a vertical slot starts at the top edge or below a wall.
VStart(g, r, c) == r = 0 \/ Cell(g, r - 1, c) = "#"

\* Variant of KeepRun: runs of a single cell are recorded too.
KeepRunAny(length) == length > 0

\* Lines 46/63: a run is recorded when its length exceeds 1.
KeepRun(length) == length > 1

\* Lines 43-44: advance c to the end of the run.
RECURSIVE HRunEnd(_, _, _)
HRunEnd(g, r, c) ==
    IF c < Width(g) /\ IsOpen(g, r, c) THEN HRunEnd(g, r, c + 1) ELSE c

\* Lines 60-61: advance r to the end of the run.
RECURSIVE VRunEnd(_, _, _)
VRunEnd(g, r, c) ==
    IF r < Height(g) /\ IsOpen(g, r, c) THEN VRunEnd(g, r + 1, c) ELSE r

\* Lines 47-48 / 64-65: slots.append(Slot(sid, cells)); sid += 1.
AddSlot(st, cells) ==
    [slots |-> Append(st.slots, [id |-> st.sid, cells |-> cells]),
     sid |-> st.sid + 1]

\* Lines 38-50: the while loop over the columns of row r.
RECURSIVE HScanRow(_, _, _, _)
HScanRow(g, r, c, st) ==
    IF ~(c < Width(g)) THEN st
    ELSE IF IsOpen(g, r, c) /\ HStart(g, r, c)
         THEN LET e == HRunEnd(g, r, c)
                  cells == [k \in 1..(e - c) |-> <<r, c + k - 1>>]
              IN  HScanRow(g, r, e, IF KeepRun(e - c) THEN AddSlot(st, cells) ELSE st)
         ELSE HScanRow(g, r, c + 1, st)

\* Lines 36-50: for r in range(h).
RECURSIVE HScan(_, _, _)
HScan(g, r, st) ==
    IF ~(r < Height(g)) THEN st ELSE HScan(g, r + 1, HScanRow(g, r, 0, st))

\* Lines 55-67: the while loop over the rows of column c.
RECURSIVE VScanCol(_, _, _, _)
VScanCol(g, r, c, st) ==
    IF ~(r < Height(g)) THEN st
    ELSE IF IsOpen(g, r, c) /\ VStart(g, r, c)
         THEN LET e == VRunEnd(g, r, c)
                  cells == [k \in 1..(e - r) |-> <<r + k - 1, c>>]
              IN  VScanCol(g, e, c, IF KeepRun(e - r) THEN AddSlot(st, cells) ELSE st)
         ELSE VScanCol(g, r + 1, c, st)

\* Lines 53-67: for c in range(w).
RECURSIVE VScan(_, _, _)
VScan(g, c, st) ==
    IF ~(c < Width(g)) THEN st ELSE VScan(g, c + 1, VScanCol(g, 0, c, st))

\* Lines 31-69: the slots of a rectangular grid, horizontal ones first.
ParseSlots(g) == VScan(g, 0, HScan(g, 0, [slots |-> <<>>, sid |-> 0])).slots

\* Line 72-73.
slot_length(slot) == Len(slot.cells)

\* --------------------------------------------------------- build_domains
\* str.upper() on the characters of the model.
UpperChar(ch) == CASE ch = "a" -> "A" [] ch = "b" -> "B" [] OTHER -> ch

\* Variant of Upper: the word is kept in the case it was written in.
UpperNot(w) == w

\* Line 85: word.upper()
Upper(w) == [k \in 1..Len(w) |-> UpperChar(w[k])]

\* str.strip(): drop leading and trailing blanks.
RECURSIVE LStrip(_)
LStrip(w) == IF w # <<>> /\ Head(w) = " " THEN LStrip(Tail(w)) ELSE w
RECURSIVE RStrip(_)
RStrip(w) ==
    IF w # <<>> /\ w[Len(w)] = " " THEN RStrip(SubSeq(w, 1, Len(w) - 1)) ELSE w
Strip(w) == RStrip(LStrip(w))

\* by_len.get(n, [])
GetOr(by_len, n) == IF n \in DOMAIN by_len THEN by_len[n] ELSE <<>>

\* Variant of AddWord: the word is put in front of the words of its length.
AddWordFront(by_len, raw_word) ==
    LET w == Strip(raw_word)
    IN  IF w = <<>> THEN by_len
        ELSE (Len(w) :> (<<Upper(w)>> \o GetOr(by_len, Len(w)))) @@ by_len

\* Lines 82-85: one iteration of the loop over the dictionary.
AddWord(by_len, raw_word) ==
    LET w == Strip(raw_word)
    IN  IF w = <<>> THEN by_len
        ELSE (Len(w) :> Append(GetOr(by_len, Len(w)), Upper(w))) @@ by_len

\* Lines 80-85: by_len after the first k entries of the dictionary.
RECURSIVE ByLen(_, _)
ByLen(dict, k) ==
    IF k = 0 THEN <<>> ELSE AddWord(ByLen(dict, k - 1), dict[k])

\* Lines 87-90: slot id -> the words of the slot's length.
build_domains(sl, dict) ==
    LET by_len == ByLen(dict, Len(dict))
    IN  [id \in {sl[k].id : k \in 1..Len(sl)} |->
            GetOr(by_len, slot_length(sl[id + 1]))]

\* --------------------------------------------------------- is_consistent
\* Variant of Clash: a letter already in the cell never rejects the word.
ClashNever(g, r, c, ch) == FALSE

\* Line 98: the cell neither is empty nor holds the letter ch.
Clash(g, r, c, ch) == Cell(g, r, c) # "." /\ Cell(g, r, c) # ch

\* Variant of is_consistent: returns after the first pair.
is_consistent_first(word, slot, g) ==
    \A k \in 1..Min(1, Min(Len(word), Len(slot.cells))) :
        ~Clash(g, slot.cells[k][1], slot.cells[k][2], word[k])

\* Lines 97-100: zip(word, slot.cells) pairs the first Min(len, len) items.
is_consistent(word, slot, g) ==
    \A k \in 1..Min(Len(word), Len(slot.cells)) :
        ~Clash(g, slot.cells[k][1], slot.cells[k][2], word[k])

\* ---------------------------------------------------- apply_word / undo
\* grid[r][c] = ch
SetCell(g, r, c, ch) == [g EXCEPT ![r + 1][c + 1] = ch]

\* Variant of ApplyStep: the cell is recorded after it is written.
ApplyStepLate(st, r, c, ch) ==
    [grid |-> SetCell(st.grid, r, c, ch),
     prev_state |-> Append(st.prev_state, <<r, c, ch>>)]

\* Lines 109-110: record the cell's character, then write the letter.
ApplyStep(st, r, c, ch) ==
    [grid |-> SetCell(st.grid, r, c, ch),
     prev_state |-> Append(st.prev_state, <<r, c, Cell(st.grid, r, c)>>)]

\* Lines 108-110: the first k iterations of the loop of apply_word.
RECURSIVE ApplyLoop(_, _, _, _)
ApplyLoop(word, slot, g, k) ==
    IF k = 0 THEN [grid |-> g, prev_state |-> <<>>]
    ELSE ApplyStep(ApplyLoop(word, slot, g, k - 1),
                   slot.cells[k][1], slot.cells[k][2], word[k])

\* Variant of apply_word: the last letter is not written.
apply_word_short(word, slot, g) ==
    ApplyLoop(word, slot, g, Min(Len(word), Len(slot.cells)) - 1)

\* Lines 103-111: the grid after the call and the returned prev_state.
apply_word(word, slot, g) ==
    ApplyLoop(word, slot, g, Min(Len(word), Len(slot.cells)))

\* Lines 118-119: the first k iterations of the loop of undo.
RECURSIVE UndoLoop(_, _, _)
UndoLoop(prev_state, g, k) ==
    IF k = 0 THEN g
    ELSE SetCell(UndoLoop(prev_state, g, k - 1),
                 prev_state[k][1], prev_state[k][2], prev_state[k][3])

\* Variant of undo: every recorded cell is emptied instead of restored.
undo_clear(prev_state, g) ==
    [r \in 1..Len(g) |-> [c \in 1..Len(g[r]) |->
        IF \E k \in 1..Len(prev_state) :
              prev_state[k][1] = r - 1 /\ prev_state[k][2] = c - 1
        THEN "." ELSE g[r][c]]]

\* Lines 114-119.
undo(prev_state, g) == UndoLoop(prev_state, g, Len(prev_state))

\* ------------------------------------------------------------ assignment
\* The dict assignment, in insertion order: a sequence of (id, word) items.
Keys(asg) == {asg[k].id : k \in 1..Len(asg)}
Values(asg) == {asg[k].word : k \in 1..Len(asg)}

\* assignment[id] = word for an id that is not a key: a new last item.
SetItem(asg, id, word) == Append(asg, [id |-> id, word |-> word])

\* Variant of DelItem: the oldest item is removed, whatever its id.
DelItemOldest(asg, id) == IF asg = <<>> THEN <<>> ELSE Tail(asg)

\* del assignment[id]
RECURSIVE DelItem(_, _)
DelItem(asg, id) ==
    IF asg = <<>> THEN <<>>
    ELSE IF Head(asg).id = id THEN Tail(asg)
    ELSE <<Head(asg)>> \o DelItem(Tail(asg), id)

\* ------------------------------------------------ select_unassigned_slot
\* Lines 138-141: the words of the slot's domain consistent with the grid.
RECURSIVE CountConsistent(_, _, _, _)
CountConsistent(dom, slot, g, k) ==
    IF k = 0 THEN 0
    ELSE CountConsistent(dom, slot, g, k - 1)
         + (IF is_consistent(dom[k], slot, g) THEN 1 ELSE 0)

\* Variant of Better: on equal counts the later slot replaces the earlier.
BetterOrEqual(count, best_count) == best_count = None \/ count <= best_count

\* Variant of Better: the slot with the most candidates is kept.
BetterMost(count, best_count) == best_count = None \/ count > best_count

\* Line 143: the slot replaces the best one so far.
Better(count, best_count) == best_count = None \/ count < best_count

\* Variant of EarlyExit: a single remaining candidate stops the scan too.
EarlyExitAtOne(best_count) == best_count \in {0, 1}

\* Line 147: stop the scan.
EarlyExit(best_count) == best_count = 0

\* Lines 134-148: the loop from the k-th slot on.
RECURSIVE SelectLoop(_, _, _, _, _, _)
SelectLoop(sl, asg, doms, g, k, best) ==
    IF k > Len(sl) THEN best
    ELSE IF sl[k].id \in Keys(asg) THEN SelectLoop(sl, asg, doms, g, k + 1, best)
    ELSE LET dom == doms[sl[k].id]
             count == CountConsistent(dom, sl[k], g, Len(dom))
             nb == IF Better(count, best.count)
                   THEN [slot |-> sl[k].id, count |-> count] ELSE best
         IN  IF EarlyExit(nb.count) THEN nb
             ELSE SelectLoop(sl, asg, doms, g, k + 1, nb)

\* Lines 122-150: the id of best_slot (None when there is none), best_count.
select_unassigned_slot(sl, asg, doms, g) ==
    SelectLoop(sl, asg, doms, g, 1, [slot |-> None, count |-> None])

\* ------------------------------------------------------------------ state
VARIABLES
    pc,            \* "idle", "call" (backtrack entered), "loop" (line 170),
                   \* "ret" (a call of backtrack returned), "done", "raised"
    raw_grid,      \* the arguments of solve_crossword
    dictionary,
    forbid_reuse,
    error,         \* the ValueError raised, "" when none
    grid,          \* the mutable letter grid
    slots,         \* the list of Slot(id, cells)
    domains,       \* slot id -> list of words
    assignment,    \* slot id -> word, in insertion order
    stack,         \* the frames of backtrack that are in their loop
    retval,        \* the value returned by the last call of backtrack
    sel,           \* the last (slot, count) of select_unassigned_slot
    success,       \* the returned tuple: success, solved_grid
    solved_grid,
    calls,         \* the number of calls of solve_crossword so far
    first,         \* the outcome of the first call
    stats          \* history of the current call: calls of backtrack,
                   \* of apply_word and of undo so far

vars == <<pc, raw_grid, dictionary, forbid_reuse, error, grid, slots, domains,
          assignment, stack, retval, sel, success, solved_grid, calls, first,
          stats>>

args == <<raw_grid, dictionary, forbid_reuse>>
problem == <<slots, domains>>
returned == <<error, success, solved_grid>>

NoSel == [slot |-> None, count |-> None]

NoStats == [entered |-> 0, placed |-> 0, undone |-> 0]

\* What a caller observes of a finished call.
Outcome ==
    [error |-> error, success |-> success, solved_grid |-> solved_grid,
     assignment |-> assignment]

Init ==
    /\ pc = "idle"
    /\ raw_grid = <<>>
    /\ dictionary = <<>>
    /\ forbid_reuse = FALSE
    /\ error = ""
    /\ grid = <<>>
    /\ slots = <<>>
    /\ domains = <<>>
    /\ assignment = <<>>
    /\ stack = <<>>
    /\ retval = FALSE
    /\ sel = NoSel
    /\ success = FALSE
    /\ solved_grid = <<>>
    /\ calls = 0
    /\ first = Outcome
    /\ stats = NoStats

\* ------------------------------------------------------- solve_crossword
\* Variant of NoSlots: the check is missing.
NoSlotsNever(sl) == FALSE

\* Line 198: not slots.
NoSlots(sl) == sl = <<>>

\* Lines 197-199: the ValueError of solve_crossword, "" when none.
SolveError(raw) ==
    IF ParseError(raw) # "" THEN ParseError(raw)
    ELSE IF NoSlots(ParseSlots(raw)) THEN "noslots"
    ELSE ""

\* Lines 197-203: parse, validate, build the domains, enter backtrack.
SolveCrossword(raw, dict, flag) ==
    /\ raw_grid' = raw
    /\ dictionary' = dict
    /\ forbid_reuse' = flag
    /\ assignment' = <<>>
    /\ stack' = <<>>
    /\ retval' = FALSE
    /\ sel' = NoSel
    /\ success' = FALSE
    /\ solved_grid' = <<>>
    /\ stats' = NoStats
    /\ error' = SolveError(raw)
    /\ IF SolveError(raw) # ""
       THEN /\ pc' = "raised"
            /\ grid' = <<>>
            /\ slots' = <<>>
            /\ domains' = <<>>
       ELSE /\ pc' = "call"
            /\ grid' = raw
            /\ slots' = ParseSlots(raw)
            /\ domains' = build_domains(ParseSlots(raw), dict)

\* The first call, on any raw grid, dictionary and flag.
Solve ==
    /\ pc = "idle"
    /\ calls = 0
    /\ calls' = 1
    /\ UNCHANGED first
    /\ \E raw \in RawGrids, dict \in Dictionaries, flag \in BOOLEAN :
          SolveCrossword(raw, dict, flag)

\* ---------------------------------------------------------- CrosswordGUI
\* In the window raw_grid and dictionary are the attributes self.raw_grid
\* and self.dictionary, forbid_reuse is the check box forbid_reuse_var.

\* What read_dict_from_file can return within the bound: stripped entries,
\* none of them blank.
FileWords == {Strip(w) : w \in Lexicon} \ {<<>>}
FileDicts == UNION {[1..n -> FileWords] : n \in 0..MaxFileDict}

\* No outcome of an earlier call with the present arguments is known.
Forgotten ==
    [error |-> "?", success |-> FALSE, solved_grid |-> <<>>,
     assignment |-> <<>>]

\* Lines 363-370: on_solve ends, after the return of solve_crossword or in
\* its except clause; its locals are gone, the window is idle again.
OnSolveReturn ==
    /\ pc \in {"done", "raised"}
    /\ pc' = "idle"
    /\ first' = Outcome
    /\ error' = ""
    /\ grid' = <<>>
    /\ slots' = <<>>
    /\ domains' = <<>>
    /\ assignment' = <<>>
    /\ stack' = <<>>
    /\ retval' = FALSE
    /\ sel' = NoSel
    /\ success' = FALSE
    /\ solved_grid' = <<>>
    /\ stats' = NoStats
    /\ UNCHANGED <<args, calls>>

\* Lines 358-363: on_solve is run again, with the attributes and the check
\* box as they are now.
SolveAgain ==
    /\ pc = "idle"
    /\ calls = 1
    /\ calls' = 2
    /\ UNCHANGED first
    /\ SolveCrossword(raw_grid, dictionary, forbid_reuse)

\* Lines 372-379: on_reload between two calls. The grid file is read, then
\* the dictionary file; when the second read raises, the grid is replaced
\* and the dictionary is not (when the first raises, nothing changes).
OnReload ==
    /\ pc = "idle"
    /\ calls = 1
    /\ \E raw \in FileGrids :
          /\ raw_grid' = raw
          /\ \/ \E dict \in FileDicts : dictionary' = dict
             \/ dictionary' = dictionary
    /\ first' = IF <<raw_grid', dictionary'>> = <<raw_grid, dictionary>>
                THEN first ELSE Forgotten
    /\ UNCHANGED <<pc, forbid_reuse, problem, returned, grid, assignment,
                   stack, retval, sel, calls, stats>>

\* Lines 283, 293-298: the check box is clicked between two calls.
ToggleReuse ==
    /\ pc = "idle"
    /\ calls = 1
    /\ forbid_reuse' = ~forbid_reuse
    /\ first' = Forgotten
    /\ UNCHANGED <<pc, raw_grid, dictionary, problem, returned, grid,
                   assignment, stack, retval, sel, calls, stats>>

\* -------------------------------------------------------------- backtrack
Top == stack[Len(stack)]
Pop(st) == SubSeq(st, 1, Len(st) - 1)
SlotOf(id) == slots[id + 1]

\* Line 163: every slot is assigned.
Complete(asg, sl) == Len(asg) = Len(sl)

\* Variant of DeadEnd: a single remaining candidate counts as none.
DeadEndAtOne(s) == s.slot = None \/ s.count <= 1

\* Line 167: the branch is dead.
DeadEnd(s) == s.slot = None \/ s.count = 0

\* Lines 163-170: a call of backtrack up to the head of its loop.
BacktrackEnter ==
    /\ pc = "call"
    /\ IF Complete(assignment, slots)
       THEN /\ retval' = TRUE
            /\ pc' = "ret"
            /\ UNCHANGED <<sel, stack>>
       ELSE LET s == select_unassigned_slot(slots, assignment, domains, grid)
            IN  /\ sel' = s
                /\ IF DeadEnd(s)
                   THEN /\ retval' = FALSE
                        /\ pc' = "ret"
                        /\ UNCHANGED stack
                   ELSE /\ stack' = Append(stack, [slot |-> s.slot, i |-> 1,
                                                   prev_state |-> <<>>])
                        /\ pc' = "loop"
                        /\ UNCHANGED retval
    /\ stats' = [stats EXCEPT !.entered = @ + 1]
    /\ UNCHANGED <<args, problem, returned, grid, assignment, calls, first>>

\* Variants of ReuseSkip: the check is missing; the flag is ignored.
ReuseSkipOff(word, asg, flag) == FALSE
ReuseSkipAlways(word, asg, flag) == word \in Values(asg)

\* Line 171: the word is already used and reuse is forbidden.
ReuseSkip(word, asg, flag) == flag /\ word \in Values(asg)

\* Lines 171-174: the candidate is passed over.
Skipped(word, slot, g, asg, flag) ==
    ReuseSkip(word, asg, flag) \/ ~is_consistent(word, slot, g)

\* Variant of LoopSkip: the loop stays at the candidate it passes over.
LoopSkipStuck ==
    /\ pc = "loop"
    /\ Top.i <= Len(domains[Top.slot])
    /\ Skipped(domains[Top.slot][Top.i], SlotOf(Top.slot), grid, assignment,
               forbid_reuse)
    /\ UNCHANGED vars

\* Lines 170-174: the current candidate is skipped, the loop goes on.
LoopSkip ==
    /\ pc = "loop"
    /\ Top.i <= Len(domains[Top.slot])
    /\ Skipped(domains[Top.slot][Top.i], SlotOf(Top.slot), grid, assignment,
               forbid_reuse)
    /\ stack' = [stack EXCEPT ![Len(stack)].i = @ + 1]
    /\ UNCHANGED <<pc, args, problem, returned, grid, assignment, retval, sel,
                   calls, first, stats>>

\* Variant of LoopPlace: the candidates are tried in no fixed order (any
\* remaining candidate that is not skipped may be the next one placed).
LoopPlaceAny ==
    /\ pc = "loop"
    /\ \E k \in Top.i..Len(domains[Top.slot]) :
          LET word == domains[Top.slot][k]
              ap == apply_word(word, SlotOf(Top.slot), grid)
          IN  /\ ~Skipped(word, SlotOf(Top.slot), grid, assignment, forbid_reuse)
              /\ grid' = ap.grid
              /\ assignment' = SetItem(assignment, Top.slot, word)
              /\ stack' = [stack EXCEPT ![Len(stack)].prev_state = ap.prev_state,
                                        ![Len(stack)].i = k]
    /\ pc' = "call"
    /\ stats' = [stats EXCEPT !.placed = @ + 1]
    /\ UNCHANGED <<args, problem, returned, retval, sel, calls, first>>

\* Lines 176-179: the candidate is placed and backtrack is called.
LoopPlace ==
    /\ pc = "loop"
    /\ Top.i <= Len(domains[Top.slot])
    /\ LET word == domains[Top.slot][Top.i]
           ap == apply_word(word, SlotOf(Top.slot), grid)
       IN  /\ ~Skipped(word, SlotOf(Top.slot), grid, assignment, forbid_reuse)
           /\ grid' = ap.grid
           /\ assignment' = SetItem(assignment, Top.slot, word)
           /\ stack' = [stack EXCEPT ![Len(stack)].prev_state = ap.prev_state]
    /\ pc' = "call"
    /\ stats' = [stats EXCEPT !.placed = @ + 1]
    /\ UNCHANGED <<args, problem, returned, retval, sel, calls, first>>

\* Line 186: the domain is exhausted, the call returns False.
LoopExhausted ==
    /\ pc = "loop"
    /\ Top.i > Len(domains[Top.slot])
    /\ stack' = Pop(stack)
    /\ retval' = FALSE
    /\ pc' = "ret"
    /\ UNCHANGED <<args, problem, returned, grid, assignment, sel, calls, first,
                   stats>>

\* Variant of ReturnTrue: the placement is undone although the recursion
\* below it succeeded.
ReturnTrueUndo ==
    /\ pc = "ret"
    /\ stack # <<>>
    /\ retval
    /\ grid' = undo(Top.prev_state, grid)
    /\ stack' = Pop(stack)
    /\ UNCHANGED <<pc, args, problem, returned, assignment, retval, sel,
                   calls, first, stats>>

\* Lines 179-180: the recursive call returned True, so does the caller.
ReturnTrue ==
    /\ pc = "ret"
    /\ stack # <<>>
    /\ retval
    /\ stack' = Pop(stack)
    /\ UNCHANGED <<pc, args, problem, returned, grid, assignment, retval, sel,
                   calls, first, stats>>

\* Variant of ReturnFalse: the slot is removed but its letters are left.
ReturnFalseKeep ==
    /\ pc = "ret"
    /\ stack # <<>>
    /\ ~retval
    /\ assignment' = DelItem(assignment, Top.slot)
    /\ stack' = [stack EXCEPT ![Len(stack)].i = @ + 1,
                              ![Len(stack)].prev_state = <<>>]
    /\ pc' = "loop"
    /\ stats' = [stats EXCEPT !.undone = @ + 1]
    /\ UNCHANGED <<args, problem, returned, grid, retval, sel, calls, first>>

\* Lines 179-184: the recursive call returned False: del, undo, next word.
ReturnFalse ==
    /\ pc = "ret"
    /\ stack # <<>>
    /\ ~retval
    /\ assignment' = DelItem(assignment, Top.slot)
    /\ grid' = undo(Top.prev_state, grid)
    /\ stack' = [stack EXCEPT ![Len(stack)].i = @ + 1,
                              ![Len(stack)].prev_state = <<>>]
    /\ pc' = "loop"
    /\ stats' = [stats EXCEPT !.undone = @ + 1]
    /\ UNCHANGED <<args, problem, returned, retval, sel, calls, first>>

\* Variant of SolveReturn: the rows of the input are returned instead of the
\* rows of the grid the search worked on.
SolveReturnRaw ==
    /\ pc = "ret"
    /\ stack = <<>>
    /\ success' = retval
    /\ solved_grid' = raw_grid
    /\ pc' = "done"
    /\ UNCHANGED <<args, problem, error, grid, assignment, stack, retval, sel,
                   calls, first, stats>>

\* Lines 203-205: the root call returned; the result tuple is built.
SolveReturn ==
    /\ pc = "ret"
    /\ stack = <<>>
    /\ success' = retval
    /\ solved_grid' = grid
    /\ pc' = "done"
    /\ UNCHANGED <<args, problem, error, grid, assignment, stack, retval, sel,
                   calls, first, stats>>

Next ==
    \/ Solve
    \/ BacktrackEnter
    \/ LoopSkip
    \/ LoopPlace
    \/ LoopExhausted
    \/ ReturnTrue
    \/ ReturnFalse
    \/ SolveReturn

Spec == Init /\ [][Next]_vars

\* The steps of a call of solve_crossword once it is made.
Search ==
    \/ BacktrackEnter
    \/ LoopSkip
    \/ LoopPlace
    \/ LoopExhausted
    \/ ReturnTrue
    \/ ReturnFalse
    \/ SolveReturn

\* The same machine when a call that was made keeps running: the
\* interpreter executes the single thread of solve_crossword step by step.
SpecLive == Spec /\ WF_vars(Search)

\* The same machine in the window: after the first call the user may read
\* the files again, click the check box and solve a second time.
NextTwice ==
    \/ Next
    \/ OnSolveReturn
    \/ OnReload
    \/ ToggleReuse
    \/ SolveAgain

SpecTwice == Init /\ [][NextTwice]_vars

\* ------------------------------------------------------------ properties
\* Declarative notions the claims are stated with; none of them is used by
\* the actions above.
Ids == {slots[k].id : k \in 1..Len(slots)}
\* The word the assignment holds for the slot id.
WordOf(id) == assignment[CHOOSE k \in 1..Len(assignment) : assignment[k].id = id].word
Range(seq) == {seq[k] : k \in 1..Len(seq)}
Searching == pc \in {"call", "loop", "ret"}
Parsed == pc \in {"call", "loop", "ret", "done"}
Returned == pc = "done"

\* Two slots and the positions at which they hold the same cell.
Crossings ==
    {x \in Ids \X Ids \X (1..MaxCells) \X (1..MaxCells) :
        /\ x[1] # x[2]
        /\ x[3] <= Len(SlotOf(x[1]).cells)
        /\ x[4] <= Len(SlotOf(x[2]).cells)
        /\ SlotOf(x[1]).cells[x[3]] = SlotOf(x[2]).cells[x[4]]}

\* f gives every slot a word of its domain, matches the letters fixed in the
\* raw grid and agrees at every shared cell; with the flag, no word twice.
Fits(f, id) ==
    \A k \in 1..Min(Len(f[id]), Len(SlotOf(id).cells)) :
        LET ch == Cell(raw_grid, SlotOf(id).cells[k][1], SlotOf(id).cells[k][2])
        IN  ch = "." \/ ch = f[id][k]
Agrees(f) ==
    \A x \in Crossings :
        x[3] <= Len(f[x[1]]) /\ x[4] <= Len(f[x[2]]) => f[x[1]][x[3]] = f[x[2]][x[4]]
Injective(f) == \A a, b \in DOMAIN f : a # b => f[a] # f[b]
FullAssignments ==
    {f \in [Ids -> UNION {Range(domains[id]) : id \in Ids}] :
        /\ \A id \in Ids : f[id] \in Range(domains[id]) /\ Fits(f, id)
        /\ Agrees(f)}
Solutions(flag) == {f \in FullAssignments : flag => Injective(f)}

\* f extends the current (partial) assignment.
Extends(f) == \A id \in Keys(assignment) : f[id] = WordOf(id)

\* C1: whenever solve_crossword returns success, every slot has an assigned
\* word of exactly the slot's length, and any two slots that share a cell
\* have the same letter there.
C1_SolvedIsConsistent ==
    (Returned /\ success) =>
        /\ \A id \in Ids :
              id \in Keys(assignment) /\ Len(WordOf(id)) = slot_length(SlotOf(id))
        /\ \A x \in Crossings : WordOf(x[1])[x[3]] = WordOf(x[2])[x[4]]

\* A solved grid with crossing slots, found after some backtracking.
C1_Witness ==
    Returned /\ success /\ Crossings # {} /\ stats.undone > 0

\* C2: the search is exhaustive.  A call of backtrack returns False only if
\* no solution extends the assignment it was entered with (so neither the
\* zero-count cut-off nor the loop loses a solution), and solve_crossword
\* returns success exactly when a solution exists.
C2_Exhaustive ==
    /\ (pc = "ret" /\ ~retval) =>
          ~\E f \in Solutions(forbid_reuse) : Extends(f)
    /\ Returned => (success <=> Solutions(forbid_reuse) # {})

\* A failure reported after words were placed and taken back, and one of
\* the dead ends was a zero count below the root.
C2_Witness ==
    /\ Returned /\ ~success
    /\ stats.undone > 0 /\ sel.count = 0 /\ stats.entered > 1

\* C3: with the no-reuse flag set, no two slots of the assignment hold the
\* same word, in every state of the search and in the result.
C3_NoReuse ==
    forbid_reuse =>
        \A i, j \in 1..Len(assignment) :
            i # j => assignment[i].word # assignment[j].word

\* Two slots are assigned under the flag, and the next candidate fits the
\* grid but is a word already in use.
C3_Witness ==
    /\ forbid_reuse /\ Len(assignment) >= 2
    /\ pc = "loop" /\ Top.i <= Len(domains[Top.slot])
    /\ domains[Top.slot][Top.i] \in Values(assignment)
    /\ is_consistent(domains[Top.slot][Top.i], SlotOf(Top.slot), grid)

\* The problem has full assignments, and each of them repeats a word.
OnlyWithReuse == FullAssignments # {} /\ Solutions(TRUE) = {}

\* C4: for a problem whose only consistent full assignments use a word in
\* two slots, the call returns success with the flag unset and failure with
\* the flag set.
C4_ReuseOnlyWhenAllowed ==
    (Returned /\ OnlyWithReuse) => (success <=> ~forbid_reuse)

\* Such a problem solved with the flag unset: two slots hold the same word.
C4_Witness ==
    /\ Returned /\ OnlyWithReuse /\ ~forbid_reuse /\ success
    /\ \E i, j \in 1..Len(assignment) :
          i # j /\ assignment[i].word = assignment[j].word

\* The normalised words of the lexicon.
Words == {Upper(Strip(w)) : w \in Lexicon}

\* C5: in every grid state of the search, for every slot and every word of
\* the slot's length, apply_word followed by undo of the returned record
\* gives back exactly the grid before apply_word.
C5_UndoRestores ==
    Searching =>
        \A k \in 1..Len(slots) : \A w \in Words :
            Len(w) = slot_length(slots[k]) =>
                undo(apply_word(w, slots[k], grid).prev_state,
                     apply_word(w, slots[k], grid).grid) = grid

\* An undo has run, and an unassigned slot holds both a letter fixed in the
\* raw grid and a letter placed by a crossing slot.
C5_Witness ==
    /\ Searching /\ stats.undone > 0
    /\ \E k \in 1..Len(slots) :
          /\ slots[k].id \notin Keys(assignment)
          /\ \E a, b \in Range(slots[k].cells) :
                /\ Cell(raw_grid, a[1], a[2]) = "A"
                /\ Cell(raw_grid, b[1], b[2]) = "."
                /\ Cell(grid, b[1], b[2]) # "."

\* The cell (r, c) lies outside the grid or is a wall.
InGrid(g, r, c) == 0 <= r /\ r < Len(g) /\ 0 <= c /\ c < Len(g[1])
Blocked(g, r, c) == ~InGrid(g, r, c) \/ Cell(g, r, c) = "#"

\* The raw grid has rows of unequal length.
Ragged(raw) == \E i, j \in 1..Len(raw) : Len(raw[i]) # Len(raw[j])

\* Two non-wall cells side by side or one above the other: a run of
\* length >= 2 exists.
HasRun(raw) ==
    \E r \in 0..(Len(raw) - 1), c \in 0..(Len(raw[1]) - 1) :
        /\ ~Blocked(raw, r, c)
        /\ ~Blocked(raw, r, c + 1) \/ ~Blocked(raw, r + 1, c)

Rejected(raw) == raw = <<>> \/ Ragged(raw) \/ ~HasRun(raw)

\* C6: solve_crossword raises exactly when the raw grid is empty, has rows
\* of unequal length or has no run of length >= 2; it then returns no result,
\* backtrack is never entered and no word is placed.
C6_ValidationExactly ==
    pc # "idle" =>
        /\ pc = "raised" <=> Rejected(raw_grid)
        /\ pc = "raised" <=> error # ""
        /\ pc = "raised" =>
              /\ stats = NoStats /\ stack = <<>> /\ assignment = <<>>
              /\ grid = <<>> /\ ~success /\ solved_grid = <<>>

\* A rectangular grid with an empty cell but no slot is rejected, whatever
\* the dictionary holds.
C6_Witness ==
    /\ pc = "raised" /\ error = "noslots" /\ dictionary # <<>>
    /\ \E r \in 1..Len(raw_grid) : "." \in Range(raw_grid[r])

\* The cells of the run of n cells from (r, c) in direction (dr, dc).
RunCells(r, c, dr, dc, n) == [k \in 1..n |-> <<r + (k - 1) * dr, c + (k - 1) * dc>>]

\* The maximal straight runs of non-wall cells of length >= 2.
MaximalRuns(g) ==
    {RunCells(x[1], x[2], x[3][1], x[3][2], x[4]) :
        x \in {y \in (0..(Len(g) - 1)) \X (0..(Len(g[1]) - 1))
                     \X {<<0, 1>>, <<1, 0>>} \X (2..MaxCells) :
                 /\ \A k \in 0..(y[4] - 1) :
                       ~Blocked(g, y[1] + k * y[3][1], y[2] + k * y[3][2])
                 /\ Blocked(g, y[1] - y[3][1], y[2] - y[3][2])
                 /\ Blocked(g, y[1] + y[4] * y[3][1], y[2] + y[4] * y[3][2])}}

\* parse_grid has just returned to solve_crossword.
Fresh == pc = "call" /\ stats.entered = 0

\* C7: every slot of parse_grid is a maximal horizontal or vertical run of
\* non-wall cells of length >= 2, and every such run is exactly one slot.
C7_SlotsAreMaximalRuns ==
    Fresh =>
        /\ \A k \in 1..Len(slots) : slots[k].cells \in MaximalRuns(raw_grid)
        /\ \A run \in MaximalRuns(raw_grid) :
              Cardinality({k \in 1..Len(slots) : slots[k].cells = run}) = 1

\* A grid with a horizontal and a vertical slot, and a cell whose horizontal
\* run has length 1 and is no slot.
C7_Witness ==
    /\ Fresh
    /\ \E k \in 1..Len(slots) : slots[k].cells[1][1] = slots[k].cells[2][1]
    /\ \E k \in 1..Len(slots) : slots[k].cells[1][2] = slots[k].cells[2][2]
    /\ \E r \in 0..(Len(raw_grid) - 1), c \in 0..(Len(raw_grid[1]) - 1) :
          /\ ~Blocked(raw_grid, r, c)
          /\ Blocked(raw_grid, r, c - 1) /\ Blocked(raw_grid, r, c + 1)

\* The cells that belong to some slot.
SlotCells == UNION {Range(slots[k].cells) : k \in 1..Len(slots)}
Coords(g) == (0..(Len(g) - 1)) \X (0..(Len(g[1]) - 1))

\* C8 as stated: on success no cell of the returned grid is the open-marker.
C8_NoOpenOnSuccess ==
    (Returned /\ success) =>
        \A x \in Coords(solved_grid) : Cell(solved_grid, x[1], x[2]) # "."

\* C8, amended: on success the open-marker cells of the returned grid are
\* exactly the empty cells of the input that belong to no slot.
C8_OpenOnlyOutsideSlots ==
    (Returned /\ success) =>
        \A x \in Coords(solved_grid) :
            Cell(solved_grid, x[1], x[2]) = "."
                <=> (Cell(raw_grid, x[1], x[2]) = "." /\ x \notin SlotCells)

\* A solved grid that still shows an open-marker.
C8_Witness ==
    /\ Returned /\ success
    /\ \E x \in Coords(solved_grid) : Cell(solved_grid, x[1], x[2]) = "."

\* Some slot holds a fixed letter that no dictionary word of the slot's
\* length has at that position.
Unmatched(k, p) ==
    LET ch == Cell(raw_grid, slots[k].cells[p][1], slots[k].cells[p][2])
    IN  /\ ch # "."
        /\ \A i \in 1..Len(dictionary) :
              LET w == Upper(Strip(dictionary[i]))
              IN  Len(w) = slot_length(slots[k]) => w[p] # ch
UnmatchedFixedLetter ==
    \E k \in 1..Len(slots) : \E p \in 1..Len(slots[k].cells) : Unmatched(k, p)

\* C10: with such a slot the call fails at the root: the first selection
\* reports a count of zero, no word is ever placed, backtrack is entered
\* once and the result is success = false.
C10_FailsAtRoot ==
    (Parsed /\ UnmatchedFixedLetter) =>
        /\ stats.placed = 0
        /\ stack = <<>>
        /\ sel # NoSel => sel.count = 0
        /\ Returned => (~success /\ stats.entered = 1)

\* The failing slot has words of its length and is not the first slot, and
\* the first slot has a candidate that fits.
C10_Witness ==
    /\ Returned /\ ~success
    /\ \E k \in 2..Len(slots) : \E p \in 1..Len(slots[k].cells) :
          Unmatched(k, p) /\ domains[slots[k].id] # <<>>
    /\ \E w \in Range(domains[0]) : is_consistent(w, SlotOf(0), raw_grid)

\* The unassigned slots, as positions in the list of slots, and the number
\* of entries of a slot's domain that fit the live grid.
Unassigned == {k \in 1..Len(slots) : slots[k].id \notin Keys(assignment)}
Viable(k) ==
    Cardinality({i \in 1..Len(domains[slots[k].id]) :
                    \A p \in 1..Len(slots[k].cells) :
                        LET ch == Cell(grid, slots[k].cells[p][1], slots[k].cells[p][2])
                        IN  ch = "." \/ ch = domains[slots[k].id][i][p]})

\* backtrack is about to call the selector.
Selecting == pc = "call" /\ ~Complete(assignment, slots)

\* C11: select_unassigned_slot returns an unassigned slot whose number of
\* domain words consistent with the live grid is minimal among the
\* unassigned slots, together with that number; among the slots with the
\* minimal number it is the first one discovered.
C11_SelectsFirstMinimum ==
    Selecting =>
        LET s == select_unassigned_slot(slots, assignment, domains, grid)
        IN  \E k \in Unassigned :
                /\ s.slot = slots[k].id
                /\ s.count = Viable(k)
                /\ \A j \in Unassigned : Viable(k) <= Viable(j)
                /\ \A j \in Unassigned : j < k => Viable(k) < Viable(j)

\* Below the root, the first unassigned slot is not a minimal one and two
\* later slots tie for the non-zero minimum.
C11_Witness ==
    /\ Selecting /\ assignment # <<>>
    /\ \E k, j \in Unassigned :
          /\ k < j /\ Viable(k) = Viable(j) /\ Viable(k) > 0
          /\ \A m \in Unassigned : Viable(k) <= Viable(m)
          /\ \E m \in Unassigned : m < k /\ Viable(k) < Viable(m)

\* The dictionary entry as build_domains reads it: without the blanks
\* around it and in upper case.
Letters(w) == {k \in 1..Len(w) : w[k] # " "}
FirstOf(S) == CHOOSE k \in S : \A j \in S : k <= j
LastOf(S) == CHOOSE k \in S : \A j \in S : j <= k
Normal(w) ==
    IF Letters(w) = {} THEN <<>>
    ELSE [k \in 1..(LastOf(Letters(w)) - FirstOf(Letters(w)) + 1) |->
            LET ch == w[FirstOf(Letters(w)) + k - 1]
            IN  IF ch = "a" THEN "A" ELSE IF ch = "b" THEN "B" ELSE ch]

\* The dictionary entries that have the length of the only slot and match
\* the letters fixed in the raw grid.
Matching ==
    {i \in 1..Len(dictionary) :
        /\ Len(Normal(dictionary[i])) = Len(slots[1].cells)
        /\ \A p \in 1..Len(slots[1].cells) :
              LET ch == Cell(raw_grid, slots[1].cells[p][1], slots[1].cells[p][2])
              IN  ch = "." \/ ch = Normal(dictionary[i])[p]}

\* C12: for a grid with exactly one slot, a successful call assigns to slot 0
\* the first dictionary word, in dictionary order, that has the slot's length
\* and matches the fixed letters, and the slot's cells hold its letters.
C12_SingleSlotFirstWord ==
    (Returned /\ success /\ Len(slots) = 1) =>
        /\ Matching # {}
        /\ assignment = <<[id |-> 0, word |-> Normal(dictionary[FirstOf(Matching)])]>>
        /\ \A p \in 1..Len(slots[1].cells) :
              Cell(solved_grid, slots[1].cells[p][1], slots[1].cells[p][2])
                  = Normal(dictionary[FirstOf(Matching)])[p]

\* A single slot, two matching words in the dictionary, the first is taken.
C12_Witness ==
    /\ Returned /\ success /\ Len(slots) = 1
    /\ Cardinality(Matching) = 2
    /\ Normal(dictionary[1]) # Normal(dictionary[2])

\* One step inserts a slot id that was not a key, as the newest item.
Inserts ==
    /\ Len(assignment') = Len(assignment) + 1
    /\ SubSeq(assignment', 1, Len(assignment)) = assignment
    /\ assignment'[Len(assignment')].id \notin Keys(assignment)

\* One step removes the most recently inserted item and nothing else.
RemovesNewest ==
    /\ assignment # <<>>
    /\ assignment' = SubSeq(assignment, 1, Len(assignment) - 1)

\* C13: the assignment is a stack over the whole search: every step that
\* changes it either inserts one new slot id or removes the most recently
\* inserted id still present, so its size changes by exactly one.
C13_AssignmentIsStack ==
    [][assignment' # assignment => Inserts \/ RemovesNewest]_vars

\* A frame has just removed its slot's id after a failed recursion while an
\* older id, inserted by an enclosing frame, is still present.
C13_Witness ==
    /\ pc = "loop" /\ Top.i > 1 /\ stats.undone >= 1
    /\ Len(assignment) >= 1 /\ Len(stack) = Len(assignment) + 1
    /\ Top.slot \notin Keys(assignment)

\* The frame at depth k holds the undo record of its current placement.
Held(k) == stack[k].prev_state # <<>>

\* The recursion below the newest placement has failed: the frame on top is
\* about to backtrack from it.
Backtracks == pc = "ret" /\ ~retval /\ stack # <<>>

\* The grid g with every cell of the record back to its recorded character.
Restored(rec, g) ==
    [r \in 1..Len(g) |-> [c \in 1..Len(g[r]) |->
        IF \E k \in 1..Len(rec) : rec[k][1] = r - 1 /\ rec[k][2] = c - 1
        THEN rec[CHOOSE k \in 1..Len(rec) :
                    rec[k][1] = r - 1 /\ rec[k][2] = c - 1][3]
        ELSE g[r][c]]]

\* C14: an undo record is consumed by exactly one undo, when the search
\* backtracks from its placement: that step restores every recorded cell,
\* consumes the newest record (records are held in order of creation, one
\* per frame) and leaves the older ones; no other step undoes anything, in
\* particular not the return of a successful recursion; and the placements
\* not undone are exactly those still in the assignment.
C14_UndoRecordsOnce ==
    [][/\ Backtracks =>
            /\ \A k \in 1..Len(stack) : Held(k)
            /\ grid' = Restored(Top.prev_state, grid)
            /\ stats'.undone = stats.undone + 1
            /\ Len(stack') = Len(stack)
            /\ stack'[Len(stack)].prev_state = <<>>
            /\ \A k \in 1..(Len(stack) - 1) :
                  stack'[k].prev_state = stack[k].prev_state
       /\ (Searching /\ ~Backtracks) =>
            /\ stats'.undone = stats.undone
            /\ pc = "ret" => grid' = grid
            /\ \A k \in 1..Min(Len(stack), Len(stack')) :
                  Held(k) => stack'[k].prev_state = stack[k].prev_state
       /\ stats'.placed = stats'.undone + Len(assignment')
      ]_vars

\* A successful recursion is returning through a frame whose record is
\* not consumed, after an earlier record of the search was consumed.
C14_Witness ==
    /\ pc = "ret" /\ retval /\ Len(stack) >= 2 /\ Held(Len(stack))
    /\ stats.undone >= 1

\* The cell (r, c) lies in a slot that is currently assigned.
Covered(r, c) ==
    \E k \in 1..Len(assignment) :
        \E p \in 1..Len(SlotOf(assignment[k].id).cells) :
            SlotOf(assignment[k].id).cells[p] = <<r, c>>

\* C15: in every state of the search, and in the returned state, each cell
\* of an assigned slot holds the corresponding letter of the slot's word, and
\* each cell that lies in no assigned slot holds its character of the input
\* grid; so an undo keeps the letters that still-assigned crossing slots
\* have in the shared cells.
C15_GridMirrorsAssignment ==
    (Searching \/ Returned) =>
        /\ \A k \in 1..Len(assignment) :
              LET cells == SlotOf(assignment[k].id).cells
              IN  /\ Len(assignment[k].word) = Len(cells)
                  /\ \A p \in 1..Len(cells) :
                        Cell(grid, cells[p][1], cells[p][2]) = assignment[k].word[p]
        /\ \A r \in 0..(Height(grid) - 1) : \A c \in 0..(Width(grid) - 1) :
              ~Covered(r, c) => Cell(grid, r, c) = Cell(raw_grid, r, c)

\* A placement has just been undone; its slot crosses a slot that is still
\* assigned, in a cell that was empty in the input and keeps its letter.
C15_Witness ==
    /\ pc = "loop" /\ Top.i > 1 /\ assignment # <<>>
    /\ \E p \in 1..Len(SlotOf(Top.slot).cells) :
          LET rc == SlotOf(Top.slot).cells[p]
          IN  /\ Covered(rc[1], rc[2])
              /\ Cell(raw_grid, rc[1], rc[2]) = "."
              /\ Cell(grid, rc[1], rc[2]) # "."
    /\ \E p \in 1..Len(SlotOf(Top.slot).cells) :
          LET rc == SlotOf(Top.slot).cells[p]
          IN  ~Covered(rc[1], rc[2]) /\ Cell(grid, rc[1], rc[2]) = "."

\* C16: when solve_crossword returns success = False, the returned grid is
\* the input grid, every placement having been undone, and the returned
\* assignment is empty.
C16_FailureRestoresInput ==
    (Returned /\ ~success) =>
        /\ solved_grid = raw_grid
        /\ grid = raw_grid
        /\ assignment = <<>>
        /\ stats.placed = stats.undone

\* A failed call that placed words at two depths and whose input has both
\* fixed letters and empty cells.
C16_Witness ==
    /\ Returned /\ ~success /\ stats.undone >= 2
    /\ stats.entered >= 4
    /\ \E r \in 1..Len(raw_grid) : \E c \in 1..Len(raw_grid[r]) : raw_grid[r][c] = "A"
    /\ \E r \in 1..Len(raw_grid) : \E c \in 1..Len(raw_grid[r]) : raw_grid[r][c] = "."

\* The positions (row, column) of a grid, counted from 0 as in the code.
Positions(g) == {<<r, c>> : r \in 0..(Height(g) - 1), c \in 0..(Width(g) - 1)}

\* The loop of backtrack is at a candidate that it is going to place.
Placing ==
    /\ pc = "loop"
    /\ Top.i <= Len(domains[Top.slot])
    /\ ~Skipped(domains[Top.slot][Top.i], SlotOf(Top.slot), grid, assignment,
                forbid_reuse)

\* C17: in every state of the search and of the result, a blocked cell
\* holds the blocked-marker and a cell with a pre-fixed letter holds that
\* letter; a placement changes only cells that hold the open-marker, to
\* letters, and rewrites every other cell of the slot with the letter it has.
C17_FixedCellsKept ==
    Parsed =>
        /\ \A rc \in Positions(raw_grid) :
              Cell(raw_grid, rc[1], rc[2]) # "." =>
                  Cell(grid, rc[1], rc[2]) = Cell(raw_grid, rc[1], rc[2])
        /\ Placing =>
              LET after == apply_word(domains[Top.slot][Top.i],
                                      SlotOf(Top.slot), grid).grid
              IN  \A rc \in Positions(grid) :
                      Cell(after, rc[1], rc[2]) # Cell(grid, rc[1], rc[2]) =>
                          /\ Cell(grid, rc[1], rc[2]) = "."
                          /\ Cell(after, rc[1], rc[2]) \notin {".", "#"}
                          /\ rc \in Range(SlotOf(Top.slot).cells)

\* A word is about to be placed on a slot that has a pre-fixed letter and an
\* empty cell, in a grid with a blocked cell, after an earlier placement has
\* filled an empty cell.
C17_Witness ==
    /\ Placing
    /\ \E rc \in Positions(raw_grid) : Cell(raw_grid, rc[1], rc[2]) = "#"
    /\ \E a, b \in Range(SlotOf(Top.slot).cells) :
          /\ Cell(raw_grid, a[1], a[2]) = "A"
          /\ Cell(grid, b[1], b[2]) = "."
    /\ \E rc \in Positions(raw_grid) :
          Cell(raw_grid, rc[1], rc[2]) = "." /\ Cell(grid, rc[1], rc[2]) # "."

\* C18: the search terminates: from the root call of backtrack the machine
\* always eventually returns, solved or failed; no more frames are open than
\* there are slots, each frame holds a slot of its own, and the index of a
\* frame in its slot's domain never goes back and never passes the end of
\* the domain by more than one.
C18_Terminates ==
    /\ (pc = "call" /\ stats.entered = 0) ~> (pc = "done" /\ stack = <<>>)
    /\ [](Searching =>
            /\ Len(stack) <= Len(slots)
            /\ \A k \in 1..Len(stack) :
                  /\ stack[k].i \in 1..(Len(domains[stack[k].slot]) + 1)
                  /\ \A j \in 1..Len(stack) : j # k => stack[j].slot # stack[k].slot)
    /\ [][\A k \in 1..Min(Len(stack), Len(stack')) : stack'[k].i >= stack[k].i]_vars

\* A call has returned after a search that opened frames at two depths and
\* came back to a frame's loop more than once.
C18_Witness ==
    /\ Returned /\ stats.entered >= 4 /\ stats.placed >= 3 /\ stats.undone >= 2

\* The positions of the dictionary whose entry has n characters once it
\* is read, and the j-th of them in dictionary order.
OfLength(n) ==
    {i \in 1..Len(dictionary) :
        Normal(dictionary[i]) # <<>> /\ Len(Normal(dictionary[i])) = n}
Nth(S, j) == CHOOSE i \in S : Cardinality({m \in S : m <= i}) = j

\* C19: build_domains maps every slot id to exactly the non-blank dictionary
\* words, stripped and in upper case, that have as many characters as the
\* slot has cells, in dictionary order and whether or not they fit the
\* grid; this holds in every state from the build to the return, so the
\* search does not modify the domains.
C19_DomainsByLength ==
    Parsed =>
        /\ DOMAIN domains = {slots[k].id : k \in 1..Len(slots)}
        /\ \A k \in 1..Len(slots) :
              LET d == domains[slots[k].id]
                  S == OfLength(Len(slots[k].cells))
              IN  /\ Len(d) = Cardinality(S)
                  /\ \A j \in 1..Len(d) : d[j] = Normal(dictionary[Nth(S, j)])

\* A call has returned, with a blank entry in the dictionary: a domain
\* still holds a word that was written in lower case with a blank before it
\* and that does not fit the slot's fixed letters.
C19_Witness ==
    /\ Returned /\ stats.entered >= 1
    /\ \E i \in 1..Len(dictionary) : Normal(dictionary[i]) = <<>>
    /\ \E k \in 1..Len(slots) : \E w \in Range(domains[slots[k].id]) :
          /\ w \notin Range(dictionary)
          /\ ~is_consistent(w, slots[k], raw_grid)

\* The selector without its early exit: every slot is looked at.
RECURSIVE FullScan(_, _)
FullScan(k, best) ==
    IF k > Len(slots) THEN best
    ELSE IF k \notin Unassigned THEN FullScan(k + 1, best)
    ELSE FullScan(k + 1,
                  IF best.count = None \/ Viable(k) < best.count
                  THEN [slot |-> slots[k].id, count |-> Viable(k)] ELSE best)

\* C20: the early exit of the selector at a count of zero does not change
\* what it returns: in every state in which backtrack calls the selector,
\* the slot and the count are those of a scan over all unassigned slots;
\* the search is deterministic and reads nothing else of the selector, so
\* the result of solve_crossword is the same without the early exit.
C20_EarlyExitIsOptimization ==
    Selecting =>
        select_unassigned_slot(slots, assignment, domains, grid)
            = FullScan(1, [slot |-> None, count |-> None])

\* The scan stops at a slot without candidates that is neither the first
\* nor the last unassigned slot: a slot after it is not looked at.
C20_Witness ==
    /\ Selecting
    /\ \E m, k, j \in Unassigned :
          m < k /\ k < j /\ Viable(m) > 0 /\ Viable(k) = 0

\* The result of a solve as a function of its arguments alone (and of the
\* slots of the grid): the search of the specification, written without a
\* grid that is updated and restored. The letter of a cell is the letter of
\* an assigned word that covers it, or the cell's character in the input.
RefCell(asg, rc) ==
    LET covers == {x \in (1..Len(asg)) \X (1..(Height(raw_grid) + Width(raw_grid))) :
                      /\ x[2] <= Len(SlotOf(asg[x[1]].id).cells)
                      /\ SlotOf(asg[x[1]].id).cells[x[2]] = rc}
    IN  IF covers = {} THEN Cell(raw_grid, rc[1], rc[2])
        ELSE LET x == CHOOSE y \in covers : TRUE IN asg[x[1]].word[x[2]]

\* The candidates of the k-th slot: the dictionary entries of its length, as
\* read, in dictionary order.
RefDomain(k) ==
    LET S == OfLength(Len(slots[k].cells))
    IN  [j \in 1..Cardinality(S) |-> Normal(dictionary[Nth(S, j)])]

RefFits(w, k, asg) ==
    \A p \in 1..Len(slots[k].cells) :
        RefCell(asg, slots[k].cells[p]) \in {".", w[p]}

RefViable(k, asg) ==
    Cardinality({j \in 1..Len(RefDomain(k)) : RefFits(RefDomain(k)[j], k, asg)})

\* The first of the open slots with the fewest fitting candidates.
RefPick(asg) ==
    LET open == {k \in 1..Len(slots) : slots[k].id \notin Keys(asg)}
    IN  CHOOSE k \in open :
            \A j \in open :
                \/ RefViable(k, asg) < RefViable(j, asg)
                \/ RefViable(k, asg) = RefViable(j, asg) /\ k <= j

RefFail == <<[id |-> None, word |-> <<>>]>>

\* The complete assignment the search ends with, RefFail when there is none.
RECURSIVE RefSearch(_), RefTry(_, _, _)
RefSearch(asg) ==
    IF Len(asg) = Len(slots) THEN asg ELSE RefTry(asg, RefPick(asg), 1)
RefTry(asg, k, j) ==
    IF j > Len(RefDomain(k)) THEN RefFail
    ELSE LET w == RefDomain(k)[j]
         IN  IF (forbid_reuse /\ w \in Values(asg)) \/ ~RefFits(w, k, asg)
             THEN RefTry(asg, k, j + 1)
             ELSE LET below == RefSearch(Append(asg, [id |-> slots[k].id,
                                                      word |-> w]))
                  IN  IF below # RefFail THEN below ELSE RefTry(asg, k, j + 1)

RefOutcome ==
    LET found == RefSearch(<<>>)
    IN  IF found = RefFail
        THEN [error |-> "", success |-> FALSE, solved_grid |-> raw_grid,
              assignment |-> <<>>]
        ELSE [error |-> "", success |-> TRUE,
              solved_grid |-> [r \in 1..Len(raw_grid) |->
                                  [c \in 1..Len(raw_grid[r]) |->
                                      RefCell(found, <<r - 1, c - 1>>)]],
              assignment |-> found]

\* C9: two runs of solve_crossword on the same grid, the same dictionary in
\* the same order and the same flag produce the same success flag, the same
\* returned grid and the same assignment: what a run returns is the value of
\* a function of these arguments, and a second run in the window with the
\* arguments of the run before it ends as that run did, with nothing carried
\* over from it.
C9_Deterministic ==
    /\ Returned => Outcome = RefOutcome
    /\ (calls = 2 /\ pc \in {"done", "raised"} /\ first # Forgotten) =>
          Outcome = first

\* Both runs, with the same arguments, went through backtracking and
\* succeeded.
C9_Witness ==
    /\ calls = 2 /\ Returned /\ success /\ first # Forgotten
    /\ stats.undone > 0 /\ Len(assignment) >= 2

====
